---- MODULE Spec2Model ----
(***************************************************************************)
(* State-machine model of main.js, the controller of the interactive art   *)
(* page: the Removal Sequencer (shape click / keyboard handlers,           *)
(* moveShapeOut, resetAllShapes), the Layout Freezer                       *)
(* (freezeCompositionPositions), the Stage Scaler (setupStageScaling) and  *)
(* the Drag Controller (setupBackgroundShapeDragging).                     *)
(*                                                                         *)
(* main.js holds three complete copies of the script, each with its own    *)
(* header comment, DOMContentLoaded registration and module.exports        *)
(* footer.  The model is of the copy at lines 290-740, the only one that   *)
(* declares removalOrder / currentRemovalIndex and the drag controller.    *)
(* Inside that copy moveShapeOut is declared twice (421 and 578); function *)
(* declarations are hoisted, so the later one (578) is the one that runs.  *)
(***************************************************************************)
EXTENDS Integers, Sequences, FiniteSets, TLC

(***************************************************************************)
(* Bounds of the model.                                                    *)
(***************************************************************************)
NumShapes == 3      \* number of .shape elements = length of removalOrder
MaxTimers == 2      \* pending 800 ms timers the model keeps at once

Shapes == 1..NumShapes

\* The key values the handlers distinguish.
ActivationKeys == {"Enter", " "}
ResetKeys      == {"r", "R", "Escape"}
NumericKeys    == 1..5

(***************************************************************************)
(* JavaScript strings that hold a CSS transform list are modelled as       *)
(* sequences of tokens: a transform function ("rotate", "scale(1.05)") or  *)
(* a single space (SP).                                                    *)
(***************************************************************************)
SP == " "
HoverSuffix == <<SP, "scale(1.05)">>      \* the literal ' scale(1.05)'

\* True iff pat occurs in str at position i.
OccursAt(str, pat, i) ==
    /\ i + Len(pat) - 1 <= Len(str)
    /\ \A k \in 1..Len(pat) : str[i + k - 1] = pat[k]

\* String.prototype.replace(pat, '') with a string pattern: removes the
\* first occurrence only, and returns the string unchanged when there is none.
JsReplaceFirst(str, pat) ==
    LET hits == {i \in 1..Len(str) : OccursAt(str, pat, i)}
    IN  IF hits = {} THEN str
        ELSE LET i == CHOOSE j \in hits : \A h \in hits : j <= h
             IN  SubSeq(str, 1, i - 1) \o SubSeq(str, i + Len(pat), Len(str))

\* The transform functions of a string, in order, without the white space.
RECURSIVE TransformFunctions(_)
TransformFunctions(str) ==
    IF str = <<>> THEN <<>>
    ELSE IF Head(str) = SP THEN TransformFunctions(Tail(str))
         ELSE <<Head(str)>> \o TransformFunctions(Tail(str))

\* Serialisation of a transform list: the functions joined by one space.
RECURSIVE JoinWithSpace(_)
JoinWithSpace(fs) ==
    IF fs = <<>> THEN <<>>
    ELSE IF Len(fs) = 1 THEN fs
         ELSE <<Head(fs), SP>> \o JoinWithSpace(Tail(fs))

\* el.style.transform = str; the value read back afterwards.  The CSSOM
\* parses the assigned text and serialises the parsed list, so leading white
\* space is not kept.
StyleTransformAssign(str) == JoinWithSpace(TransformFunctions(str))

(***************************************************************************)
(* Page fixture: what the markup provides.  Shapes are numbered in document*)
(* order (the order of querySelectorAll('.shape')).  Shape 1 carries its   *)
(* authored rotation as an inline style; the other shapes get theirs from  *)
(* the style sheet, so their inline transform starts empty.                *)
(***************************************************************************)
authoredTransform == [s \in Shapes |-> IF s = 1 THEN <<"rotate">> ELSE <<>>]

\* removalOrder: the class names, abstracted to 1..NumShapes.
removalOrder == [i \in 1..NumShapes |-> i]

\* The class each shape carries: document order may follow the removal
\* order or run against it.
ClassAssignments ==
    { [s \in Shapes |-> s], [s \in Shapes |-> NumShapes + 1 - s] }

VARIABLES
    domContentLoaded,     \* DOMContentLoaded has fired: handlers are registered
    shapeClass,           \* shapeClass[s]: the removal-order class of shape s
    currentRemovalIndex,  \* 0-based index into removalOrder
    movedOut,             \* movedOut[s]: s carries the class 'moved-out'
    pointerEvents,        \* inline style.pointerEvents of s: "", "auto", "none"
    transform,            \* inline style.transform of s (token string)
    timers,               \* pending 800 ms callbacks, oldest first
    hovered,              \* the shape under the pointer, 0 when there is none
    lastEvent,            \* the last event delivered (history)
    scenario              \* progress along the example scenario (history)

VARIABLES
    deferredPending,      \* the setTimeout(..., 0) callback of DOMContentLoaded is pending
    loadFired,            \* the window 'load' event has fired
    viewport,             \* <<window.innerWidth, window.innerHeight>>
    stageScale,           \* scale of #composition-stage's inline transform, <<0, 1>> = unset
    resizeListeners,      \* number of registered 'resize' listeners (rescale closures)
    box,                  \* box[e]: inline left/top/width/height of frozen element e, in px
    positioned,           \* positioned[e]: style.position = 'absolute' was written
    freezeRuns            \* completed runs of freezeCompositionPositions (history)

seqVars == <<shapeClass, currentRemovalIndex, movedOut, pointerEvents, transform,
             timers, hovered>>

layoutVars == <<deferredPending, loadFired, viewport, stageScale, resizeListeners,
                box, positioned, freezeRuns>>

VARIABLES
    isDragging,           \* the drag controller's latch
    draggedElement,       \* the background shape being dragged, 0 for null
    offset,               \* [x, y]: pointer offset captured at drag-start
    maxZIndex,            \* the z-order counter
    bgPos,                \* bgPos[b]: [left, top] of background shape b, in px
    bgOpacity,            \* bgOpacity[b]: inline style.opacity, "" = unset
    bgZIndex              \* bgZIndex[b]: z-index of b (1 = the style sheet's default)

dragVars == <<isDragging, draggedElement, offset, maxZIndex, bgPos, bgOpacity, bgZIndex>>

VARIABLES
    hasStage,             \* getElementById('composition-stage') finds an element
    hasArtContainer,      \* querySelector('.art-container') finds an element
    audio,                \* what the Web Audio API does on this page, one of AudioStates
    uncaught,             \* a listener has thrown: an uncaught exception was reported
    effects               \* what the last handler run did besides the state above (history)

\* What the page and the browser provide; no handler changes it.
pageVars == <<hasStage, hasArtContainer, audio>>

vars == <<domContentLoaded, lastEvent, scenario, seqVars, layoutVars, dragVars,
          pageVars, uncaught, effects>>

\* A handler run that throws nothing and does nothing beyond the state it writes.
Quiet == effects' = {} /\ UNCHANGED uncaught

Event(kind, target) == [kind |-> kind, target |-> target]

(***************************************************************************)
(* History kept for the checks: the last event delivered, and how far the  *)
(* run has followed the example scenario of the specification              *)
(* (removalOrder = [A, B, C]: activate C, A, A, B, C, then press R).       *)
(* scenario = k: exactly the first k inputs of the scenario have been      *)
(* delivered, in order, since page load; -1: the run has left it.  Timer   *)
(* callbacks, pointer movement and the events of the other components do   *)
(* not count as inputs.                                                    *)
(***************************************************************************)
ScenarioActivations == <<3, 1, 1, 2, 3>>     \* classes C, A, A, B, C

IsActivation(ev) == ev.kind \in {"click", "Enter", " "}
IsSequencerInput(ev) ==
    ev.kind \in {"click", "Enter", " ", "r", "R", "Escape", "digit", "resetButton"}

ScenarioNext(ev) ==
    IF scenario = -1 \/ ~IsSequencerInput(ev) THEN scenario
    ELSE IF scenario < Len(ScenarioActivations)
         THEN IF IsActivation(ev) /\ shapeClass[ev.target] = ScenarioActivations[scenario + 1]
              THEN scenario + 1 ELSE -1
         ELSE IF scenario = Len(ScenarioActivations) /\ ev.kind = "R"
              THEN scenario + 1 ELSE -1

Deliver(ev) ==
    /\ lastEvent' = ev
    /\ scenario' = ScenarioNext(ev)

(***************************************************************************)
(* Array.prototype.indexOf on removalOrder: 0-based, -1 when absent.       *)
(***************************************************************************)
IndexOf(cls) ==
    LET hits == {i \in 1..Len(removalOrder) : removalOrder[i] = cls}
    IN  IF hits = {} THEN -1
        ELSE (CHOOSE j \in hits : \A h \in hits : j <= h) - 1

\* No completion indicator exists: no statement of the script creates,
\* shows or hides one (the click listener only advances the index).
completionIndicatorVisible == FALSE

\* The order test with '>=' for '==='.
IsNextInOrder_AtOrAfter(s) == IndexOf(shapeClass[s]) >= currentRemovalIndex

\* The order test of the click and keydown handlers.
IsNextInOrder(s) == IndexOf(shapeClass[s]) = currentRemovalIndex

(***************************************************************************)
(* moveShapeOut(shape): the effect on movedOut and timers.                 *)
(***************************************************************************)
AudioStates == {"ok", "unavailable", "throws"}

\* playClickSound() without its try / catch: the exception leaves the function.
playClickSound_NoCatch(a) == [tone |-> a = "ok", logged |-> FALSE, threw |-> a # "ok"]

\* playClickSound(): the tone is started when the Web Audio API works; when the
\* constructor is missing or a call throws, the catch block logs
\* 'Audio not supported' and the function returns normally.
playClickSound(a) == [tone |-> a = "ok", logged |-> a # "ok", threw |-> FALSE]

\* moveShapeOut(shape) is left by an exception (of playClickSound).
moveShapeOutThrows(s) == ~movedOut[s] /\ playClickSound(audio).threw

\* moveShapeOut(shape) without its 'already moved out' guard.
moveShapeOut_NoGuard(s) ==
    /\ movedOut' = [movedOut EXCEPT ![s] = TRUE]
    /\ timers' = Append(timers, s)
    /\ UNCHANGED uncaught
    /\ effects' = {"ripple", "timer"} \cup (IF audio = "ok" THEN {"tone"} ELSE {"log"})

\* In order: the guard, addVisualFeedback (ripple), classList.add('moved-out'),
\* playClickSound, setTimeout(..., 800).
moveShapeOut(s) ==
    IF movedOut[s]
    THEN UNCHANGED <<movedOut, timers, uncaught>> /\ effects' = {}
    ELSE LET sound == playClickSound(audio)
         IN  /\ movedOut' = [movedOut EXCEPT ![s] = TRUE]
             /\ timers' = IF sound.threw THEN timers ELSE Append(timers, s)
             /\ uncaught' = (uncaught \/ sound.threw)
             /\ effects' = {"ripple"}
                             \cup (IF sound.tone THEN {"tone"} ELSE {})
                             \cup (IF sound.logged THEN {"log"} ELSE {})
                             \cup (IF sound.threw THEN {} ELSE {"timer"})

\* The model keeps at most MaxTimers pending callbacks.
TimerRoom(s) == movedOut[s] \/ Len(timers) < MaxTimers

SeqInit ==
    /\ shapeClass \in ClassAssignments
    /\ currentRemovalIndex = 0
    /\ movedOut = [s \in Shapes |-> FALSE]
    /\ pointerEvents = [s \in Shapes |-> ""]
    /\ transform = authoredTransform
    /\ timers = <<>>
    /\ hovered = 0

\* DOMContentLoaded listener: initializeArtPiece() registers the handlers and
\* the freeze-and-scale callback is deferred with setTimeout(..., 0).
DOMContentLoaded ==
    /\ ~domContentLoaded
    /\ Deliver(Event("DOMContentLoaded", 0))
    /\ domContentLoaded' = TRUE
    /\ deferredPending' = TRUE
    /\ Quiet
    /\ UNCHANGED <<seqVars, loadFired, viewport, stageScale, resizeListeners,
                   box, positioned, freezeRuns, dragVars, pageVars>>

\* The click listener without its order test.
ShapeClickHandler_NoOrderTest(s) ==
    /\ moveShapeOut(s)
    /\ UNCHANGED currentRemovalIndex

\* The click listener without 'currentRemovalIndex++'.
ShapeClickHandler_NoAdvance(s) ==
    IF IsNextInOrder(s)
    THEN moveShapeOut(s) /\ UNCHANGED currentRemovalIndex
    ELSE UNCHANGED <<movedOut, timers, currentRemovalIndex>> /\ Quiet

\* The body of the shape's click listener.
ShapeClickHandler(s) ==
    IF IsNextInOrder(s)
    THEN /\ moveShapeOut(s)
         /\ currentRemovalIndex' = IF moveShapeOutThrows(s) THEN currentRemovalIndex
                                                            ELSE currentRemovalIndex + 1
    ELSE UNCHANGED <<movedOut, timers, currentRemovalIndex>> /\ Quiet

\* A click on shape s: delivered only while s takes pointer events.
ShapeClick(s) ==
    /\ domContentLoaded
    /\ Deliver(Event("click", s))
    /\ pointerEvents[s] # "none"
    /\ TimerRoom(s)
    /\ ShapeClickHandler(s)
    /\ UNCHANGED <<domContentLoaded, shapeClass, pointerEvents, transform, hovered,
                   layoutVars, dragVars, pageVars>>

\* The body of the shape's keydown listener.
ShapeKeydownHandler(s, key) ==
    IF key \in ActivationKeys /\ IsNextInOrder(s)
    THEN /\ moveShapeOut(s)
         /\ currentRemovalIndex' = IF moveShapeOutThrows(s) THEN currentRemovalIndex
                                                            ELSE currentRemovalIndex + 1
    ELSE UNCHANGED <<movedOut, timers, currentRemovalIndex>> /\ Quiet

\* Enter or Space on the focused shape s (focus does not need pointer events).
ShapeKeydown(s, key) ==
    /\ domContentLoaded
    /\ Deliver(Event(key, s))
    /\ TimerRoom(s)
    /\ ShapeKeydownHandler(s, key)
    /\ UNCHANGED <<domContentLoaded, shapeClass, pointerEvents, transform, hovered,
                   layoutVars, dragVars, pageVars>>

\* The part of the state resetAllShapes() reads or writes, plus the pending
\* timers (which it leaves alone).
SequencerState ==
    [movedOut |-> movedOut, pointerEvents |-> pointerEvents, transform |-> transform,
     currentRemovalIndex |-> currentRemovalIndex, timers |-> timers]

\* resetAllShapes() without 'currentRemovalIndex = 0'.
ResetOutcome_KeepsIndex(st) ==
    [st EXCEPT !.movedOut = [s \in Shapes |-> FALSE],
               !.pointerEvents = [s \in Shapes |-> "auto"],
               !.transform = [s \in Shapes |->
                    StyleTransformAssign(JsReplaceFirst(st.transform[s], HoverSuffix))]]

\* resetAllShapes() that also drops the pending callbacks.
ResetOutcome_CancelsTimers(st) ==
    [st EXCEPT !.movedOut = [s \in Shapes |-> FALSE],
               !.pointerEvents = [s \in Shapes |-> "auto"],
               !.transform = [s \in Shapes |->
                    StyleTransformAssign(JsReplaceFirst(st.transform[s], HoverSuffix))],
               !.currentRemovalIndex = 0,
               !.timers = <<>>]

\* resetAllShapes() with classList.toggle for classList.remove.
ResetOutcome_ToggleMovedOut(st) ==
    [st EXCEPT !.movedOut = [s \in Shapes |-> ~st.movedOut[s]],
               !.pointerEvents = [s \in Shapes |-> "auto"],
               !.currentRemovalIndex = 0]

\* The state resetAllShapes() leaves when run in state st.
ResetOutcome(st) ==
    [st EXCEPT !.movedOut = [s \in Shapes |-> FALSE],
               !.pointerEvents = [s \in Shapes |-> "auto"],
               !.transform = [s \in Shapes |->
                    StyleTransformAssign(JsReplaceFirst(st.transform[s], HoverSuffix))],
               !.currentRemovalIndex = 0]

\* resetAllShapes().
resetAllShapes ==
    LET after == ResetOutcome(SequencerState)
    IN  /\ movedOut' = after.movedOut
        /\ pointerEvents' = after.pointerEvents
        /\ transform' = after.transform
        /\ currentRemovalIndex' = after.currentRemovalIndex
        /\ timers' = after.timers

\* The document keydown listener with a reset key.
DocumentResetKey(key) ==
    /\ domContentLoaded
    /\ Deliver(Event(key, 0))
    /\ key \in ResetKeys
    /\ resetAllShapes
    /\ Quiet
    /\ UNCHANGED <<domContentLoaded, shapeClass, hovered, layoutVars, dragVars, pageVars>>

\* The numeric-key branch with the order test of the shape listeners.
NumericKeyHandler_OrderChecked(n) ==
    IF n \in Shapes /\ IsNextInOrder(n)
    THEN /\ moveShapeOut(n)
         /\ currentRemovalIndex' = currentRemovalIndex + 1
    ELSE UNCHANGED <<movedOut, timers, currentRemovalIndex>> /\ Quiet

\* The branch of the document keydown listener for '1'..'5': shapes[index]
\* is the n-th shape in document order, if there is one.
NumericKeyHandler(n) ==
    IF n \in Shapes
    THEN moveShapeOut(n) /\ UNCHANGED currentRemovalIndex
    ELSE UNCHANGED <<movedOut, timers, currentRemovalIndex>> /\ Quiet

\* The document keydown listener with a numeric key '1'..'5'.
DocumentNumericKey(n) ==
    /\ domContentLoaded
    /\ Deliver(Event("digit", n))
    /\ n \in NumericKeys
    /\ n \in Shapes => TimerRoom(n)
    /\ NumericKeyHandler(n)
    /\ UNCHANGED <<domContentLoaded, shapeClass,
                   pointerEvents, transform, hovered, layoutVars, dragVars, pageVars>>

\* The reset button's click listener also ending the drag in progress.
ResetButtonClick_ResetsDrag ==
    /\ domContentLoaded
    /\ Deliver(Event("resetButton", 0))
    /\ resetAllShapes
    /\ Quiet
    /\ isDragging' = FALSE
    /\ draggedElement' = 0
    /\ UNCHANGED <<domContentLoaded, shapeClass, hovered, layoutVars, offset, maxZIndex,
                   bgPos, bgOpacity, bgZIndex, pageVars>>

\* The reset button's click listener.
ResetButtonClick ==
    /\ domContentLoaded
    /\ Deliver(Event("resetButton", 0))
    /\ resetAllShapes
    /\ Quiet
    /\ UNCHANGED <<domContentLoaded, shapeClass, hovered, layoutVars, dragVars, pageVars>>

\* A click on the page title: initializeArtPiece() registers no listener on
\* it, so no handler runs.
TitleClick ==
    /\ domContentLoaded
    /\ Deliver(Event("titleClick", 0))
    /\ Quiet
    /\ UNCHANGED <<domContentLoaded, seqVars, layoutVars, dragVars, pageVars>>

\* mouseenter listener of shape s: the pointer comes over s from outside
\* every shape (leaving one shape for another is a mouseleave, then this).
MouseEnter(s) ==
    /\ domContentLoaded
    /\ Deliver(Event("mouseenter", s))
    /\ hovered = 0
    /\ pointerEvents[s] # "none"
    /\ hovered' = s
    /\ transform' = [transform EXCEPT ![s] = StyleTransformAssign(@ \o HoverSuffix)]
    /\ Quiet
    /\ UNCHANGED <<domContentLoaded, shapeClass, currentRemovalIndex, movedOut,
                   pointerEvents, timers, layoutVars, dragVars, pageVars>>

\* mouseleave listener of shape s.
MouseLeave(s) ==
    /\ domContentLoaded
    /\ Deliver(Event("mouseleave", s))
    /\ hovered = s
    /\ hovered' = 0
    /\ transform' = [transform EXCEPT
                       ![s] = StyleTransformAssign(JsReplaceFirst(@, HoverSuffix))]
    /\ Quiet
    /\ UNCHANGED <<domContentLoaded, shapeClass, currentRemovalIndex, movedOut,
                   pointerEvents, timers, layoutVars, dragVars, pageVars>>

\* The 800 ms callback with its assignment lost.
TimerFire_NoDisable ==
    /\ timers # <<>>
    /\ Deliver(Event("timer", Head(timers)))
    /\ timers' = Tail(timers)
    /\ Quiet
    /\ UNCHANGED <<domContentLoaded, shapeClass, currentRemovalIndex, movedOut,
                   pointerEvents, transform, hovered, layoutVars, dragVars, pageVars>>

\* The oldest pending 800 ms callback of moveShapeOut runs.
TimerFire ==
    /\ timers # <<>>
    /\ Deliver(Event("timer", Head(timers)))
    /\ pointerEvents' = [pointerEvents EXCEPT ![Head(timers)] = "none"]
    /\ timers' = Tail(timers)
    /\ Quiet
    /\ UNCHANGED <<domContentLoaded, shapeClass, currentRemovalIndex, movedOut,
                   transform, hovered, layoutVars, dragVars, pageVars>>

(***************************************************************************)
(* Layout Freezer and Stage Scaler.                                        *)
(*                                                                         *)
(* A scale factor is a fraction <<num, den>> in lowest terms (JavaScript   *)
(* computes it as a double; the viewport sizes of the model keep every     *)
(* product exact).                                                         *)
(***************************************************************************)
DESIGN_WIDTH  == 1480
DESIGN_HEIGHT == 800

NumElements == 2    \* elements matched by '.shape, .award-text, .name-text, .main-text'
Elements == 1..NumElements

\* The window sizes the model resizes between.
ViewportWidths  == {740, 1110, 1480, 2960}
ViewportHeights == {400, 800, 1600}

RECURSIVE GCD(_, _)
GCD(a, b) == IF b = 0 THEN a ELSE GCD(b, a % b)

Fraction(n, d) == LET g == GCD(n, d) IN <<n \div g, d \div g>>
FracLeq(a, b) == a[1] * b[2] <= b[1] * a[2]

\* Math.min on two numbers.
MathMin(a, b) == IF FracLeq(a, b) THEN a ELSE b

\* rescale() without the cap at 1.
rescale_NoCap(w, h) ==
    MathMin(Fraction(w, DESIGN_WIDTH), Fraction(h, DESIGN_HEIGHT))

\* The scale rescale() writes for a window of w by h.
rescale(w, h) ==
    LET raw == MathMin(Fraction(w, DESIGN_WIDTH), Fraction(h, DESIGN_HEIGHT))
    IN  MathMin(raw, Fraction(1, 1))

\* The scale in force on the stage: 1 while no inline transform is set.
EffectiveScale == IF stageScale = <<0, 1>> THEN <<1, 1>> ELSE stageScale

\* getBoundingClientRect() of a box inside the scaled stage: rendered lengths
\* and offsets to the offsetParent are the layout values times the scale.
Rendered(v, sc) == (v * sc[1]) \div sc[2]

\* The layout the style sheet gives the elements before any freeze.
authoredBox ==
    [e \in Elements |-> [left |-> 40 * e, top |-> 24 * e, width |-> 80, height |-> 48]]

\* freezeCompositionPositions(): every element's rendered box is written
\* back as its inline left/top/width/height.
\* Without the container ('if (!stage) return;') nothing is measured.
freezeCompositionPositions ==
    IF ~hasArtContainer
    THEN UNCHANGED <<box, positioned, freezeRuns>>
    ELSE /\ box' = [e \in Elements |->
                      [left   |-> Rendered(box[e].left, EffectiveScale),
                       top    |-> Rendered(box[e].top, EffectiveScale),
                       width  |-> Rendered(box[e].width, EffectiveScale),
                       height |-> Rendered(box[e].height, EffectiveScale)]]
         /\ positioned' = [e \in Elements |-> TRUE]
         /\ freezeRuns' = freezeRuns + 1

\* setupStageScaling(): registers rescale on 'resize' and runs it once.
\* Without the stage ('if (!stage) return;') no listener is registered.
setupStageScaling ==
    IF ~hasStage
    THEN UNCHANGED <<resizeListeners, stageScale>>
    ELSE /\ resizeListeners' = resizeListeners + 1
         /\ stageScale' = rescale(viewport[1], viewport[2])

LayoutInit ==
    /\ deferredPending = FALSE
    /\ loadFired = FALSE
    /\ viewport \in ViewportWidths \X ViewportHeights
    /\ stageScale = <<0, 1>>
    /\ resizeListeners = 0
    /\ box = authoredBox
    /\ positioned = [e \in Elements |-> FALSE]
    /\ freezeRuns = 0

\* The callback DOMContentLoaded deferred with setTimeout(..., 0).
DeferredCallback ==
    /\ deferredPending
    /\ Deliver(Event("deferred", 0))
    /\ deferredPending' = FALSE
    /\ freezeCompositionPositions
    /\ setupStageScaling
    /\ Quiet
    /\ UNCHANGED <<domContentLoaded, seqVars, loadFired, viewport, dragVars, pageVars>>

\* The window 'load' listener (load follows DOMContentLoaded).
WindowLoad ==
    /\ domContentLoaded
    /\ Deliver(Event("load", 0))
    /\ ~loadFired
    /\ loadFired' = TRUE
    /\ freezeCompositionPositions
    /\ setupStageScaling
    /\ Quiet
    /\ UNCHANGED <<domContentLoaded, seqVars, deferredPending, viewport, dragVars, pageVars>>

\* The window is resized to w by h; every registered rescale listener runs.
WindowResize(w, h) ==
    /\ <<w, h>> # viewport
    /\ Deliver(Event("resize", 0))
    /\ viewport' = <<w, h>>
    /\ stageScale' = IF resizeListeners > 0 THEN rescale(w, h) ELSE stageScale
    /\ Quiet
    /\ UNCHANGED <<domContentLoaded, seqVars, deferredPending, loadFired,
                   resizeListeners, box, positioned, freezeRuns, dragVars, pageVars>>

(***************************************************************************)
(* Drag Controller: setupBackgroundShapeDragging().  Its listeners are     *)
(* registered by initializeArtPiece(), so they run once DOMContentLoaded   *)
(* has fired.  Mouse and touch listeners are separate; the environment may *)
(* deliver their events in any order (a second finger, a mouse beside a    *)
(* touch screen, a mouseup lost outside the window).                       *)
(***************************************************************************)
NumBgShapes == 2    \* number of .background-shape elements
MaxCoord == 1       \* pointer coordinates are 0..MaxCoord on each axis
MaxPos == 1         \* a shape's left and top are kept within 0..MaxPos
MaxInterleavedDrags == 1   \* drags completed when run together with the sequencer

BgShapes == 1..NumBgShapes
Coords == 0..MaxCoord
Positions == 0..MaxPos

\* The z-order limits the mouseup / touchend listeners use.
InitialMaxZIndex == 2
InteractiveZIndex == 10
DragZIndex == 100

\* getBoundingClientRect() of #composition-stage.
stageRect == [left |-> 0, top |-> 0]

\* Where the style sheet puts the background shapes.
authoredBgPos == [b \in BgShapes |-> [left |-> b - 1, top |-> 0]]

DragInit ==
    /\ isDragging = FALSE
    /\ draggedElement = 0
    /\ offset = [x |-> 0, y |-> 0]
    /\ maxZIndex = InitialMaxZIndex
    /\ bgPos = authoredBgPos
    /\ bgOpacity = [b \in BgShapes |-> ""]
    /\ bgZIndex = [b \in BgShapes |-> 1]

\* The mousedown listener of b, for a pointer at (x, y).
\* The latch and the element are set first; without the stage,
\* stage.getBoundingClientRect() then throws a TypeError (stage is null) and
\* the rest of the listener does not run.
dragStart(b, x, y) ==
    /\ isDragging' = TRUE
    /\ draggedElement' = b
    /\ IF hasStage
       THEN /\ offset' = [x |-> x - stageRect.left - bgPos[b].left,
                          y |-> y - stageRect.top - bgPos[b].top]
            /\ bgOpacity' = [bgOpacity EXCEPT ![b] = "0.7"]
            /\ bgZIndex' = [bgZIndex EXCEPT ![b] = DragZIndex]
            /\ UNCHANGED uncaught
       ELSE /\ uncaught' = TRUE
            /\ UNCHANGED <<offset, bgOpacity, bgZIndex>>
    /\ UNCHANGED <<maxZIndex, bgPos>>

\* The position the mousemove listener computes.
dragPosition(x, y) ==
    [left |-> x - stageRect.left - offset.x, top |-> y - stageRect.top - offset.y]

\* mousemove with every background shape following the pointer.
dragMove_AllShapes(x, y) ==
    IF ~isDragging \/ draggedElement = 0
    THEN UNCHANGED <<dragVars, uncaught>>
    ELSE /\ dragPosition(x, y).left \in Positions
         /\ dragPosition(x, y).top \in Positions
         /\ bgPos' = [b \in BgShapes |-> dragPosition(x, y)]
         /\ UNCHANGED <<isDragging, draggedElement, offset, maxZIndex,
                        bgOpacity, bgZIndex, uncaught>>

\* The mousemove listener.  Past the latch test it reads the stage's
\* rectangle: without the stage that throws before any position is written.
dragMove(x, y) ==
    IF ~isDragging \/ draggedElement = 0
    THEN UNCHANGED <<dragVars, uncaught>>
    ELSE IF ~hasStage
         THEN uncaught' = TRUE /\ UNCHANGED dragVars
         ELSE /\ dragPosition(x, y).left \in Positions
              /\ dragPosition(x, y).top \in Positions
              /\ bgPos' = [bgPos EXCEPT ![draggedElement] = dragPosition(x, y)]
              /\ UNCHANGED <<isDragging, draggedElement, offset, maxZIndex,
                             bgOpacity, bgZIndex, uncaught>>

\* The wrap with '>' for '>='.
nextZIndex_WrapLate(z) == IF z + 1 > InteractiveZIndex THEN InitialMaxZIndex ELSE z + 1

\* The counter after maxZIndex++ and the wrap of the drag-end listeners.
nextZIndex(z) == IF z + 1 >= InteractiveZIndex THEN InitialMaxZIndex ELSE z + 1

\* The mouseup listener.
dragEnd ==
    IF isDragging /\ draggedElement # 0
    THEN /\ maxZIndex' = nextZIndex(maxZIndex)
         /\ bgOpacity' = [bgOpacity EXCEPT ![draggedElement] = "0.85"]
         /\ bgZIndex' = [bgZIndex EXCEPT ![draggedElement] = nextZIndex(maxZIndex)]
         /\ draggedElement' = 0
         /\ isDragging' = FALSE
         /\ UNCHANGED <<offset, bgPos, uncaught>>
    ELSE UNCHANGED <<dragVars, uncaught>>

(***************************************************************************)
(* The touch listeners (672-729), translated from their own text: the      *)
(* coordinates are those of e.touches[0].                                  *)
(***************************************************************************)
\* The touchstart listener of b, for a first touch at (x, y).
touchDragStart(b, x, y) ==
    /\ isDragging' = TRUE
    /\ draggedElement' = b
    /\ IF hasStage
       THEN /\ offset' = [x |-> x - stageRect.left - bgPos[b].left,
                          y |-> y - stageRect.top - bgPos[b].top]
            /\ bgOpacity' = [bgOpacity EXCEPT ![b] = "0.7"]
            /\ bgZIndex' = [bgZIndex EXCEPT ![b] = DragZIndex]
            /\ UNCHANGED uncaught
       ELSE /\ uncaught' = TRUE
            /\ UNCHANGED <<offset, bgOpacity, bgZIndex>>
    /\ UNCHANGED <<maxZIndex, bgPos>>

\* The touchmove listener.
touchDragMove(x, y) ==
    IF ~isDragging \/ draggedElement = 0
    THEN UNCHANGED <<dragVars, uncaught>>
    ELSE IF ~hasStage
         THEN uncaught' = TRUE /\ UNCHANGED dragVars
         ELSE LET newLeft == x - stageRect.left - offset.x
                  newTop  == y - stageRect.top - offset.y
              IN  /\ newLeft \in Positions
                  /\ newTop \in Positions
                  /\ bgPos' = [bgPos EXCEPT ![draggedElement] =
                                                [left |-> newLeft, top |-> newTop]]
                  /\ UNCHANGED <<isDragging, draggedElement, offset, maxZIndex,
                                 bgOpacity, bgZIndex, uncaught>>

\* The touchend listener without the wrap of the counter.
touchDragEnd_NoWrap ==
    IF isDragging /\ draggedElement # 0
    THEN /\ maxZIndex' = maxZIndex + 1
         /\ bgOpacity' = [bgOpacity EXCEPT ![draggedElement] = "0.85"]
         /\ bgZIndex' = [bgZIndex EXCEPT ![draggedElement] = maxZIndex + 1]
         /\ draggedElement' = 0
         /\ isDragging' = FALSE
         /\ UNCHANGED <<offset, bgPos, uncaught>>
    ELSE UNCHANGED <<dragVars, uncaught>>

\* The touchend listener.
touchDragEnd ==
    IF isDragging /\ draggedElement # 0
    THEN LET counter == IF maxZIndex + 1 >= InteractiveZIndex THEN InitialMaxZIndex
                                                             ELSE maxZIndex + 1
         IN  /\ maxZIndex' = counter
             /\ bgOpacity' = [bgOpacity EXCEPT ![draggedElement] = "0.85"]
             /\ bgZIndex' = [bgZIndex EXCEPT ![draggedElement] = counter]
             /\ draggedElement' = 0
             /\ isDragging' = FALSE
             /\ UNCHANGED <<offset, bgPos, uncaught>>
    ELSE UNCHANGED <<dragVars, uncaught>>

dragFrame == effects' = {} /\ UNCHANGED <<domContentLoaded, seqVars, layoutVars, pageVars>>

MouseDown(b, x, y) ==
    /\ domContentLoaded
    /\ Deliver(Event("mousedown", b))
    /\ dragStart(b, x, y)
    /\ dragFrame

MouseMove(x, y) ==
    /\ domContentLoaded
    /\ Deliver(Event("mousemove", 0))
    /\ dragMove(x, y)
    /\ dragFrame

MouseUp ==
    /\ domContentLoaded
    /\ Deliver(Event("mouseup", 0))
    /\ dragEnd
    /\ dragFrame

TouchStart(b, x, y) ==
    /\ domContentLoaded
    /\ Deliver(Event("touchstart", b))
    /\ touchDragStart(b, x, y)
    /\ dragFrame

TouchMove(x, y) ==
    /\ domContentLoaded
    /\ Deliver(Event("touchmove", 0))
    /\ touchDragMove(x, y)
    /\ dragFrame

TouchEnd ==
    /\ domContentLoaded
    /\ Deliver(Event("touchend", 0))
    /\ touchDragEnd
    /\ dragFrame

SeqNext ==
    \/ DOMContentLoaded
    \/ \E s \in Shapes : ShapeClick(s)
    \/ \E s \in Shapes, key \in ActivationKeys : ShapeKeydown(s, key)
    \/ \E key \in ResetKeys : DocumentResetKey(key)
    \/ \E n \in NumericKeys : DocumentNumericKey(n)
    \/ ResetButtonClick
    \/ TitleClick
    \/ \E s \in Shapes : MouseEnter(s)
    \/ \E s \in Shapes : MouseLeave(s)
    \/ TimerFire

LayoutNext ==
    \/ DOMContentLoaded
    \/ DeferredCallback
    \/ WindowLoad
    \/ \E w \in ViewportWidths, h \in ViewportHeights : WindowResize(w, h)

DragNext ==
    \/ DOMContentLoaded
    \/ \E b \in BgShapes, x \in Coords, y \in Coords : MouseDown(b, x, y)
    \/ \E x \in Coords, y \in Coords : MouseMove(x, y)
    \/ MouseUp
    \/ \E b \in BgShapes, x \in Coords, y \in Coords : TouchStart(b, x, y)
    \/ \E x \in Coords, y \in Coords : TouchMove(x, y)
    \/ TouchEnd

Init ==
    /\ domContentLoaded = FALSE
    /\ lastEvent = Event("none", 0)
    /\ scenario = IF NumShapes = Len(ScenarioActivations) - 2 THEN 0 ELSE -1
    /\ SeqInit
    /\ LayoutInit
    /\ DragInit
    /\ hasStage \in BOOLEAN
    /\ hasArtContainer \in BOOLEAN
    /\ audio \in AudioStates
    /\ uncaught = FALSE
    /\ effects = {}

Next == SeqNext \/ LayoutNext \/ DragNext

\* The whole page.
Spec == Init /\ [][Next]_vars

\* The page fixtures the single components are run from.
\* The page as shipped: both containers are in the markup and audio works.
CompletePage == hasStage /\ hasArtContainer /\ audio = "ok"

SeqFixtureInit    == Init /\ viewport = <<DESIGN_WIDTH, DESIGN_HEIGHT>> /\ CompletePage
LayoutFixtureInit == Init /\ shapeClass = [s \in Shapes |-> s] /\ CompletePage
DragFixtureInit   == SeqFixtureInit /\ LayoutFixtureInit

\* The Removal Sequencer on its own (the events of the other components do
\* not occur), for both document orders of the shapes.
SeqSpec == SeqFixtureInit /\ [][SeqNext]_vars

\* The Layout Freezer and the Stage Scaler on their own, from every window size.
LayoutSpec == LayoutFixtureInit /\ [][LayoutNext]_vars

\* The Drag Controller on its own.
DragSpec == DragFixtureInit /\ [][DragNext]_vars

\* Page start-up together with the inputs that move a shape out: the
\* listeners of initializeArtPiece() are live from DOMContentLoaded on, the
\* freeze runs from the zero-delay callback and again from 'load'.
StartupNext ==
    \/ DOMContentLoaded
    \/ DeferredCallback
    \/ WindowLoad
    \/ \E s \in Shapes : ShapeClick(s)
    \/ \E s \in Shapes, key \in ActivationKeys : ShapeKeydown(s, key)
    \/ \E n \in NumericKeys : DocumentNumericKey(n)
    \/ TimerFire

StartupSpec == DragFixtureInit /\ [][StartupNext]_vars

\* A page whose markup lacks #composition-stage (and perhaps .art-container).
DegradedFixtureInit ==
    /\ Init
    /\ viewport = <<DESIGN_WIDTH, DESIGN_HEIGHT>>
    /\ shapeClass = [s \in Shapes |-> s]
    /\ audio = "ok"
    /\ ~hasStage

DegradedNext == LayoutNext \/ DragNext

DegradedSpec == DegradedFixtureInit /\ [][DegradedNext]_vars

\* The Removal Sequencer in a browser where audio works, is missing, or throws.
AudioFixtureInit ==
    /\ Init
    /\ viewport = <<DESIGN_WIDTH, DESIGN_HEIGHT>>
    /\ shapeClass = [s \in Shapes |-> s]
    /\ hasStage /\ hasArtContainer

AudioSpec == AudioFixtureInit /\ [][SeqNext]_vars

\* Activations, resets and timers, with the guarantee the timer queue of the
\* browser gives: a pending setTimeout callback is eventually run.
TimerNext ==
    \/ DOMContentLoaded
    \/ \E s \in Shapes : ShapeClick(s)
    \/ \E s \in Shapes, key \in ActivationKeys : ShapeKeydown(s, key)
    \/ \E key \in ResetKeys : DocumentResetKey(key)
    \/ \E n \in NumericKeys : DocumentNumericKey(n)
    \/ ResetButtonClick
    \/ TimerFire

FairTimerSpec == DragFixtureInit /\ [][TimerNext]_vars /\ WF_vars(TimerFire)

\* The Removal Sequencer and the Drag Controller on one page, their events
\* interleaved in any order.  Drags are started while fewer than
\* MaxInterleavedDrags have been completed.
DragRoom == maxZIndex < InitialMaxZIndex + MaxInterleavedDrags

InterleavedMouseDown(b, x, y) == DragRoom /\ MouseDown(b, x, y)
InterleavedTouchStart(b, x, y) == DragRoom /\ TouchStart(b, x, y)

InterleaveNext ==
    \/ DOMContentLoaded
    \/ \E s \in Shapes : ShapeClick(s)
    \/ \E s \in Shapes : ShapeKeydown(s, "Enter")
    \/ \E n \in NumericKeys : DocumentNumericKey(n)
    \/ DocumentResetKey("Escape")
    \/ ResetButtonClick
    \/ TimerFire
    \/ \E b \in BgShapes, c \in Coords : InterleavedMouseDown(b, c, c)
    \/ \E c \in Coords : MouseMove(c, c)
    \/ MouseUp
    \/ \E b \in BgShapes, c \in Coords : InterleavedTouchStart(b, c, c)
    \/ \E c \in Coords : TouchMove(c, c)
    \/ TouchEnd

InterleaveSpec == DragFixtureInit /\ [][InterleaveNext]_vars

(***************************************************************************)
(* Vocabulary of the claims.                                               *)
(***************************************************************************)
N == Len(removalOrder)

\* s is the shape named by removalOrder[currentRemovalIndex].
IsHead(s) ==
    /\ currentRemovalIndex < N
    /\ shapeClass[s] = removalOrder[currentRemovalIndex + 1]

\* A step that delivers an activation input (click, Enter or Space) to s.
ActivationOf(s) == ShapeClick(s) \/ \E key \in ActivationKeys : ShapeKeydown(s, key)

\* A step that runs resetAllShapes().
ResetStep == ResetButtonClick \/ \E key \in ResetKeys : DocumentResetKey(key)

PointerInert(s) == pointerEvents[s] = "none"

(***************************************************************************)
(* C1: an activation input (click, Enter or Space) targeted at a shape     *)
(* that is not removalOrder[currentRemovalIndex] changes nothing: the      *)
(* index stays, no shape becomes moved-out, no timer is scheduled, and no  *)
(* shape's pointer interactivity or transform changes.                     *)
(***************************************************************************)
C1_OutOfOrderActivationIgnored ==
    [][\A s \in Shapes :
         (ActivationOf(s) /\ ~IsHead(s)) =>
             UNCHANGED <<currentRemovalIndex, movedOut, timers, pointerEvents, transform>>]_vars

\* An out-of-order click has just been delivered, after one shape was removed:
\* the clicked shape is still in place.
C1_Witness ==
    /\ lastEvent.kind = "click"
    /\ currentRemovalIndex = 1
    /\ ~IsHead(lastEvent.target)
    /\ ~movedOut[lastEvent.target]

(***************************************************************************)
(* C2: an activation of the head shape moves currentRemovalIndex from i to *)
(* i + 1, and a shape whose 800 ms timer has made it pointer-inert stays   *)
(* pointer-inert on every step that is not a run of resetAllShapes().      *)
(***************************************************************************)
C2_HeadActivationAdvancesByOne ==
    [][/\ \A s \in Shapes :
            (ActivationOf(s) /\ IsHead(s)) =>
                currentRemovalIndex' = currentRemovalIndex + 1
       /\ \A s \in Shapes :
            (PointerInert(s) /\ ~ResetStep) => pointerEvents'[s] = "none"]_vars

\* The timer of an activated head shape has just fired: the index has
\* advanced and the shape is moved-out and pointer-inert.
C2_Witness ==
    /\ lastEvent.kind = "timer"
    /\ currentRemovalIndex >= 1
    /\ shapeClass[lastEvent.target] = removalOrder[1]
    /\ movedOut[lastEvent.target]
    /\ PointerInert(lastEvent.target)

(***************************************************************************)
(* C3: in every reachable state the completion indicator is visible if and *)
(* only if currentRemovalIndex equals the length of removalOrder.          *)
(***************************************************************************)
C3_CompletionIndicatorIffComplete ==
    completionIndicatorVisible <=> (currentRemovalIndex = N)

(***************************************************************************)
(* C9: currentRemovalIndex lies in 0..N; while it is below N exactly one   *)
(* shape responds to an activation input, the one named                    *)
(* removalOrder[currentRemovalIndex]; when it equals N no shape responds.  *)
(***************************************************************************)
\* s responds to activation: its listener would advance the sequence.
Eligible(s) ==
    ENABLED (ShapeKeydownHandler(s, "Enter") /\ currentRemovalIndex' # currentRemovalIndex)

C9_ExactlyOneEligible ==
    /\ currentRemovalIndex \in 0..N
    /\ \A s \in Shapes : Eligible(s) <=> IsHead(s)
    /\ currentRemovalIndex < N => Cardinality({s \in Shapes : Eligible(s)}) = 1
    /\ currentRemovalIndex = N => {s \in Shapes : Eligible(s)} = {}

\* The sequence is exhausted: the last shape of the order has just been
\* activated and no shape is eligible any more.
C9_Witness ==
    /\ currentRemovalIndex = N
    /\ IsActivation(lastEvent)
    /\ shapeClass[lastEvent.target] = removalOrder[N]

IsResetEvent(ev) == ev.kind \in {"r", "R", "Escape", "resetButton"}

(***************************************************************************)
(* C4: right after resetAllShapes() the index is 0, no shape is moved-out, *)
(* every shape is pointer-interactive, every shape's transform is its      *)
(* authored value (no hover scale is left), and the completion indicator   *)
(* is hidden.                                                              *)
(***************************************************************************)
C4_ResetRestoresAuthoredState ==
    IsResetEvent(lastEvent) =>
        /\ currentRemovalIndex = 0
        /\ \A s \in Shapes : ~movedOut[s] /\ ~PointerInert(s)
        /\ transform = authoredTransform
        /\ ~completionIndicatorVisible

(***************************************************************************)
(* C5: resetAllShapes() is idempotent: in every reachable state, running   *)
(* it twice leaves the same index, moved-out flags, pointer interactivity, *)
(* transforms and pending timers as running it once.                       *)
(***************************************************************************)
C5_ResetIdempotent ==
    ResetOutcome(ResetOutcome(SequencerState)) = ResetOutcome(SequencerState)

\* A reset has just run with a timer pending and a hover scale left behind;
\* the next reset is the second in a row.
C5_Witness ==
    /\ IsResetEvent(lastEvent)
    /\ timers # <<>>
    /\ \E s \in Shapes : transform[s] # authoredTransform[s]
    /\ SequencerState = ResetOutcome(SequencerState)

(***************************************************************************)
(* C6: once setupStageScaling() has run, and after every resize, the scale *)
(* of the stage is min(innerWidth / 1480, innerHeight / 800, 1): at most   *)
(* each of the three, and equal to one of them.                            *)
(***************************************************************************)
FracEq(a, b) == a[1] * b[2] = b[1] * a[2]

C6_StageScaleIsCappedMin ==
    resizeListeners > 0 =>
        LET byWidth  == <<viewport[1], 1480>>
            byHeight == <<viewport[2], 800>>
            one      == <<1, 1>>
        IN  /\ FracLeq(stageScale, one)
            /\ FracLeq(stageScale, byWidth)
            /\ FracLeq(stageScale, byHeight)
            /\ FracEq(stageScale, one) \/ FracEq(stageScale, byWidth)
                                       \/ FracEq(stageScale, byHeight)

\* A resize to a window smaller than the design size has just been handled.
C6_Witness ==
    /\ lastEvent.kind = "resize"
    /\ resizeListeners > 0
    /\ stageScale[1] < stageScale[2]

(***************************************************************************)
(* C7: at every instant at most one background shape is in the drag state  *)
(* (the elevated appearance: opacity 0.7, z-order 100); a drag-start on B  *)
(* while A is being dragged does not leave A in it.                        *)
(***************************************************************************)
Elevated(b) == bgOpacity[b] = "0.7" \/ bgZIndex[b] = DragZIndex

C7_AtMostOneShapeInDragState ==
    Cardinality({b \in BgShapes : Elevated(b)}) <= 1

(***************************************************************************)
(* C8: the example scenario.  With removalOrder = [A, B, C] from page load:*)
(* activate C leaves the index 0; activate A gives index 1 with A removed  *)
(* and no longer eligible; activate A again changes nothing; activate B    *)
(* gives index 2; activate C gives index 3 with the completion indicator   *)
(* shown; pressing R gives index 0 with every shape re-enabled and the     *)
(* indicator hidden.                                                       *)
(***************************************************************************)
ShapeOfClass(c) == CHOOSE s \in Shapes : shapeClass[s] = c

\* The state right after the k-th input of the scenario.
AfterInput(k) == scenario = k /\ IsSequencerInput(lastEvent)

C8_ScenarioSequencerPart ==
    /\ AfterInput(1) => currentRemovalIndex = 0 /\ \A s \in Shapes : ~movedOut[s]
    /\ (AfterInput(2) \/ AfterInput(3)) =>
           /\ currentRemovalIndex = 1
           /\ \A s \in Shapes : movedOut[s] <=> s = ShapeOfClass(1)
           /\ ~Eligible(ShapeOfClass(1))
    /\ AfterInput(4) => currentRemovalIndex = 2
    /\ AfterInput(5) => currentRemovalIndex = 3
    /\ AfterInput(6) =>
           /\ currentRemovalIndex = 0
           /\ \A s \in Shapes : ~movedOut[s] /\ pointerEvents[s] = "auto"

C8_ExampleScenario ==
    /\ C8_ScenarioSequencerPart
    /\ AfterInput(5) => completionIndicatorVisible
    /\ AfterInput(6) => ~completionIndicatorVisible

(***************************************************************************)
(* C10: the freezer's measure-and-rewrite runs at most once per page life: *)
(* once it has run, no later step (a later call of                         *)
(* freezeCompositionPositions from the deferred callback or from load)     *)
(* changes any element's left, top, width or height.                       *)
(***************************************************************************)
C10_FreezeRunsOnce ==
    [][freezeRuns >= 1 => box' = box]_vars

(***************************************************************************)
(* C11: a numeric key k in 1..5 activates the k-th shape of the document   *)
(* whatever currentRemovalIndex is (no order test): if that shape exists   *)
(* and is not moved-out it becomes moved-out and its timer is scheduled;   *)
(* the key press never changes currentRemovalIndex.                        *)
(***************************************************************************)
C11_NumericKeyForceActivates ==
    [][\A n \in NumericKeys :
         DocumentNumericKey(n) =>
             /\ currentRemovalIndex' = currentRemovalIndex
             /\ (n \in Shapes /\ ~movedOut[n]) =>
                    /\ movedOut'[n]
                    /\ timers' = Append(timers, n)
                    /\ "ripple" \in effects']_vars

\* A numeric key has just moved out a shape that comes later in the removal
\* order than the head, after the sequence had advanced once.
C11_Witness ==
    /\ lastEvent.kind = "digit"
    /\ lastEvent.target \in Shapes
    /\ "ripple" \in effects
    /\ movedOut[lastEvent.target]
    /\ currentRemovalIndex = 1
    /\ IndexOf(shapeClass[lastEvent.target]) > currentRemovalIndex

(***************************************************************************)
(* C12: every reset trigger runs resetAllShapes() in every state: the      *)
(* reset button, the R key, the r key, the Escape key and a click on the   *)
(* page title all leave the post-reset state.                              *)
(***************************************************************************)
C12_EveryResetTriggerResets ==
    [][(ResetStep \/ TitleClick) => SequencerState' = ResetOutcome(SequencerState)]_vars

(***************************************************************************)
(* C13: the freeze has completed before the first exit animation: no shape *)
(* becomes moved-out before freezeCompositionPositions() has run, and no   *)
(* run of it measures a shape that is already moved-out.                   *)
(***************************************************************************)
C13_FreezeBeforeFirstExit ==
    [][/\ (\E s \in Shapes : ~movedOut[s] /\ movedOut'[s]) => freezeRuns >= 1
       /\ freezeRuns' > freezeRuns => \A s \in Shapes : ~movedOut[s]]_vars

(***************************************************************************)
(* C14: with an expected element missing the responsible handler returns   *)
(* without an exception and without a change: freeze without its           *)
(* container, rescale without the stage, and drag-start or drag-move       *)
(* without the stage throw nothing and leave the drag state (latch,        *)
(* dragged element, offset) and every position unchanged.                  *)
(***************************************************************************)
C14_MissingElementIsSilent ==
    [][/\ ~hasArtContainer => UNCHANGED <<box, positioned>>
       /\ ~hasStage => UNCHANGED <<stageScale, resizeListeners>>
       /\ (~hasStage /\ lastEvent'.kind \in {"mousedown", "touchstart", "mousemove", "touchmove"})
              => UNCHANGED <<isDragging, draggedElement, offset, bgPos>>
       /\ (~hasStage \/ ~hasArtContainer) => ~uncaught']_vars

(***************************************************************************)
(* C15: when audio is unavailable or throws during an activation the error *)
(* is swallowed and the activation has the effect it has with working      *)
(* audio: the shape is marked moved-out, its 800 ms timer is scheduled,    *)
(* the index advances, and only the tone is replaced by a log line.        *)
(***************************************************************************)
C15_AudioFailureSwallowed ==
    [][\A s \in Shapes :
         (ActivationOf(s) /\ IsHead(s) /\ ~movedOut[s]) =>
             /\ movedOut'[s]
             /\ timers' = Append(timers, s)
             /\ currentRemovalIndex' = currentRemovalIndex + 1
             /\ ~uncaught'
             /\ effects' = {"ripple", "timer"}
                             \cup (IF audio = "ok" THEN {"tone"} ELSE {"log"})]_vars

\* The second shape of the order has just been activated in a browser whose
\* audio calls throw: it is moved-out with its timer pending, and the
\* failure was only logged.
C15_Witness ==
    /\ audio = "throws"
    /\ IsActivation(lastEvent)
    /\ currentRemovalIndex = 2
    /\ movedOut[lastEvent.target]
    /\ effects = {"ripple", "timer", "log"}
    /\ timers # <<>>
    /\ timers[Len(timers)] = lastEvent.target
    /\ ~uncaught

(***************************************************************************)
(* C16: moveShapeOut on a shape that is already moved-out is a complete    *)
(* no-op (no ripple, no tone, no new timer), so between two resets each    *)
(* shape schedules at most one timer: a timer for s is scheduled only on   *)
(* a step that makes s moved-out, and only a reset clears moved-out.       *)
(***************************************************************************)
\* Number of pending callbacks for shape s in the queue q.
TimersOf(q, s) == Cardinality({i \in 1..Len(q) : q[i] = s})

C16_NoDoubleActivation ==
    [][\A s \in Shapes :
         /\ (movedOut[s] /\ (ActivationOf(s) \/ DocumentNumericKey(s))) =>
                /\ effects' = {}
                /\ UNCHANGED <<movedOut, timers, pointerEvents, transform>>
         /\ TimersOf(timers', s) > TimersOf(timers, s) =>
                /\ ~movedOut[s] /\ movedOut'[s]
                /\ TimersOf(timers', s) = TimersOf(timers, s) + 1
         /\ (movedOut[s] /\ ~movedOut'[s]) => ResetStep]_vars

\* A numeric key has just been pressed for a shape that was already
\* moved-out with its timer pending: nothing was produced, one timer only.
C16_Witness ==
    /\ lastEvent.kind = "digit"
    /\ lastEvent.target \in Shapes
    /\ movedOut[lastEvent.target]
    /\ effects = {}
    /\ TimersOf(timers, lastEvent.target) = 1

(***************************************************************************)
(* C17: an activation does not disable the shape's pointer interaction in  *)
(* the activation step: pointer-events change to 'none' only when the      *)
(* shape's 800 ms timer fires; that timer eventually fires, and the shape  *)
(* is then pointer-inert.                                                  *)
(***************************************************************************)
C17_PointerDisabledByTimerOnly ==
    /\ [][\A s \in Shapes :
            /\ (ActivationOf(s) \/ DocumentNumericKey(s)) => pointerEvents' = pointerEvents
            /\ (~PointerInert(s) /\ pointerEvents'[s] = "none") =>
                   (TimerFire /\ Head(timers) = s)]_vars
    /\ \A s \in Shapes : (TimersOf(timers, s) > 0) ~> PointerInert(s)

\* A shape has just been activated: it is moved-out, its timer is pending
\* and it still takes pointer events.
C17_Witness ==
    /\ IsActivation(lastEvent)
    /\ movedOut[lastEvent.target]
    /\ "timer" \in effects
    /\ TimersOf(timers, lastEvent.target) = 1
    /\ ~PointerInert(lastEvent.target)

(***************************************************************************)
(* C18: reset never cancels a pending timer: a callback leaves the queue   *)
(* only by running, and when it runs the shape becomes pointer-inert, also *)
(* when resetAllShapes() ran in between (activate, reset, timer-fire       *)
(* leaves the shape pointer-inert although it has been reset).             *)
(***************************************************************************)
C18_ResetKeepsPendingTimers ==
    [][/\ ResetStep => timers' = timers
       /\ \A s \in Shapes :
            TimersOf(timers', s) < TimersOf(timers, s) =>
                (TimerFire /\ Head(timers) = s /\ pointerEvents'[s] = "none")]_vars

\* Activate, reset, timer: the timer of a shape has just fired after a
\* reset; the shape is back in place, the index is 0, and the shape takes
\* no pointer events.
C18_Witness ==
    /\ lastEvent.kind = "timer"
    /\ ~movedOut[lastEvent.target]
    /\ currentRemovalIndex = 0
    /\ PointerInert(lastEvent.target)

(***************************************************************************)
(* C19: every advance of currentRemovalIndex coincides with the exit       *)
(* animation of the shape at that index being triggered in the same step:  *)
(* the index never advances on a step in which the head shape does not go  *)
(* from not-moved-out to moved-out.                                        *)
(***************************************************************************)
C19_AdvanceCoincidesWithExit ==
    [][currentRemovalIndex' > currentRemovalIndex =>
         \E s \in Shapes : IsHead(s) /\ ~movedOut[s] /\ movedOut'[s]]_vars

(***************************************************************************)
(* C20: the z-order counter and every z-order given at a drag-end stay in  *)
(* 2..9, below the sequencer shapes' 10; the counter rises by one per      *)
(* completed drag and wraps to 2 when it would reach 10; a drag-end with   *)
(* no active drag changes neither the counter nor any shape.               *)
(***************************************************************************)
C20_ZOrderCounterBounded ==
    /\ [](maxZIndex \in 2..9)
    /\ [][(MouseUp \/ TouchEnd) =>
            IF isDragging /\ draggedElement # 0
            THEN /\ maxZIndex' = IF maxZIndex + 1 = 10 THEN 2 ELSE maxZIndex + 1
                 /\ bgZIndex'[draggedElement] = maxZIndex'
                 /\ bgZIndex'[draggedElement] \in 2..9
            ELSE UNCHANGED dragVars]_vars

\* The counter has just wrapped: a drag-end gave the dropped shape z-order 2.
C20_Witness ==
    /\ lastEvent.kind \in {"mouseup", "touchend"}
    /\ maxZIndex = 2
    /\ \E b \in BgShapes : bgZIndex[b] = 2 /\ bgOpacity[b] = "0.85"

(***************************************************************************)
(* C21: at every drag-end the dropped background shape gets a top-of-stack *)
(* z-order: its new z-order is greater than or equal to the z-order of     *)
(* every other background shape, after any number of earlier drags.        *)
(***************************************************************************)
\* A step of the mouseup or touchend listener that ends a drag.
DragEndStep == (MouseUp \/ TouchEnd) /\ isDragging /\ draggedElement # 0

\* Stated for the other shapes at rest; a shape left at the drag z-order 100
\* by an overlapping drag-start (C7) is not counted against the claim here.
C21_DroppedShapeOnTop ==
    [][DragEndStep =>
         \A b \in BgShapes :
             bgZIndex'[b] # DragZIndex => bgZIndex'[draggedElement] >= bgZIndex'[b]]_vars

(***************************************************************************)
(* C22: a pointer-move or touch-move changes a background shape's position *)
(* only while a drag is active, and then only that of the dragged shape:   *)
(* with no active drag every left and top is unchanged, during a drag      *)
(* every other shape's position is unchanged; no other event moves a shape.*)
(***************************************************************************)
MoveStep == \E x \in Coords, y \in Coords : MouseMove(x, y) \/ TouchMove(x, y)

C22_MoveOnlyDraggedShape ==
    [][/\ (MoveStep /\ (~isDragging \/ draggedElement = 0)) => bgPos' = bgPos
       /\ (MoveStep /\ isDragging /\ draggedElement # 0) =>
              \A b \in BgShapes : b # draggedElement => bgPos'[b] = bgPos[b]
       /\ ~MoveStep => bgPos' = bgPos]_vars

\* A move has just been delivered after a drag had ended: the shape dropped
\* away from its authored place stays where it was dropped.
C22_Witness ==
    /\ lastEvent.kind \in {"mousemove", "touchmove"}
    /\ ~isDragging
    /\ \E b \in BgShapes : bgOpacity[b] = "0.85" /\ bgPos[b] # authoredBgPos[b]

(***************************************************************************)
(* C23: the pointer and touch paths are symmetric: from the same state a   *)
(* touch drag-start, drag-move or drag-end with given coordinates leads to *)
(* the state the mouse event with the same coordinates leads to (position, *)
(* opacity, z-order, counter, drag flags), and conversely.                 *)
(***************************************************************************)
C23_TouchMirrorsMouse ==
    [][/\ \A b \in BgShapes, x \in Coords, y \in Coords :
            /\ TouchStart(b, x, y) => dragStart(b, x, y)
            /\ MouseDown(b, x, y) => touchDragStart(b, x, y)
       /\ \A x \in Coords, y \in Coords :
            /\ TouchMove(x, y) => dragMove(x, y)
            /\ MouseMove(x, y) => touchDragMove(x, y)
       /\ TouchEnd => dragEnd
       /\ MouseUp => touchDragEnd]_vars

\* A touch drag has just been completed: the shape was moved and dropped,
\* and the counter has wrapped at least once before.
C23_Witness ==
    /\ lastEvent.kind = "touchend"
    /\ ~isDragging
    /\ draggedElement = 0
    /\ maxZIndex = 3
    /\ \E b \in BgShapes : /\ bgZIndex[b] = 3
                            /\ bgOpacity[b] = "0.85"
                            /\ bgPos[b] # authoredBgPos[b]
    /\ \E b \in BgShapes : bgZIndex[b] = 9

(***************************************************************************)
(* C24: the Removal Sequencer and the Drag Controller are independent      *)
(* under any interleaving: no drag event changes currentRemovalIndex or a  *)
(* sequencer shape's moved-out or pointer state, and no sequencer event    *)
(* (activation, numeric key, reset) changes a background shape's position, *)
(* z-order or the drag state.                                              *)
(***************************************************************************)
DragEventStep ==
    lastEvent'.kind \in {"mousedown", "mousemove", "mouseup",
                         "touchstart", "touchmove", "touchend"}

SequencerEventStep ==
    \/ \E s \in Shapes : ActivationOf(s)
    \/ \E n \in NumericKeys : DocumentNumericKey(n)
    \/ ResetStep

C24_SequencerAndDragIndependent ==
    [][/\ DragEventStep =>
              UNCHANGED <<currentRemovalIndex, movedOut, pointerEvents, timers>>
       /\ SequencerEventStep =>
              UNCHANGED <<bgPos, bgZIndex, bgOpacity, isDragging, draggedElement,
                          offset, maxZIndex>>]_vars

\* A reset has just run in the middle of a drag, after a shape was removed
\* and the dragged shape was moved: the drag goes on.
C24_Witness ==
    /\ lastEvent.kind = "resetButton"
    /\ isDragging
    /\ draggedElement # 0
    /\ bgPos[draggedElement] # authoredBgPos[draggedElement]
    /\ bgZIndex[draggedElement] = DragZIndex
    /\ timers # <<>>

(***************************************************************************)
(* C25: only the currently eligible shape grows on hover and the grown     *)
(* state never outlives eligibility: in every reachable state a shape that *)
(* is not removalOrder[currentRemovalIndex] carries no scale(1.05).        *)
(***************************************************************************)
Grown(s) == \E i \in 1..Len(transform[s]) : transform[s][i] = "scale(1.05)"

C25_OnlyEligibleShapeGrown ==
    \A s \in Shapes : ~IsHead(s) => ~Grown(s)

(***************************************************************************)
(* C26: in every reachable state a sequencer shape whose pointer           *)
(* interaction is disabled is also marked moved-out.                       *)
(***************************************************************************)
C26_InertImpliesMovedOut ==
    \A s \in Shapes : PointerInert(s) => movedOut[s]

(***************************************************************************)
(* C27: in every reachable state every shape named at a removalOrder       *)
(* position below currentRemovalIndex is moved-out, and conversely every   *)
(* moved-out shape is named at a position below currentRemovalIndex, so    *)
(* the index equals the number of moved-out shapes.                        *)
(***************************************************************************)
BelowIndex(s) == IndexOf(shapeClass[s]) < currentRemovalIndex

MovedOutShapes == {s \in Shapes : movedOut[s]}

C27_MovedOutIffBelowIndex ==
    /\ \A s \in Shapes : movedOut[s] <=> BelowIndex(s)
    /\ currentRemovalIndex = Cardinality(MovedOutShapes)

\* C27 as amended: every shape named below currentRemovalIndex is
\* moved-out, so the index is at most the number of moved-out shapes (a
\* numeric key moves shapes out without advancing the index).
C27_BelowIndexIsMovedOut ==
    /\ \A s \in Shapes : BelowIndex(s) => movedOut[s]
    /\ currentRemovalIndex <= Cardinality(MovedOutShapes)

\* The sequence has advanced twice and a numeric key has removed the third
\* shape of the order as well.
C27_Witness ==
    /\ currentRemovalIndex = 2
    /\ Cardinality(MovedOutShapes) = 3
    /\ lastEvent.kind = "digit"

(***************************************************************************)
(* C28: a background shape carries the elevated drag appearance (opacity   *)
(* 0.7, z-order 100) exactly while it is the shape being dragged: whenever *)
(* no drag is active no background shape has z-order 100 or opacity 0.7.   *)
(***************************************************************************)
C28_ElevatedIffDragged ==
    \A b \in BgShapes : Elevated(b) <=> (isDragging /\ draggedElement = b)
====
